---- MODULE Spec2Model ----
(***************************************************************************)
(* A model of lambda/aer_downloader.py: the report-date resolver           *)
(* (previous_business_day, resolve_report_date), the source locator        *)
(* (build_url, s3_key) and the handler pipeline                            *)
(* fetch -> head -> put -> summarize -> notify -> delete, run by           *)
(* several concurrent invocations against one bucket and one topic.        *)
(***************************************************************************)
EXTENDS Integers, Sequences, FiniteSets, Bags, TLC

(***************************************************************************)
(* datetime.date: proleptic Gregorian civil dates, as the standard library *)
(* computes them.  A date is a record [year, month, day].                  *)
(***************************************************************************)
Date(y, m, d) == [year |-> y, month |-> m, day |-> d]

NoDate == Date(0, 0, 0)

is_leap(y) == y % 4 = 0 /\ (y % 100 # 0 \/ y % 400 = 0)

days_in_month(y, m) ==
    IF m = 2 THEN (IF is_leap(y) THEN 29 ELSE 28)
    ELSE IF m \in {4, 6, 9, 11} THEN 30 ELSE 31

days_before_year(y) ==
    LET p == y - 1 IN p * 365 + (p \div 4) - (p \div 100) + (p \div 400)

RECURSIVE days_before_month(_, _)
days_before_month(y, m) ==
    IF m = 1 THEN 0 ELSE days_before_month(y, m - 1) + days_in_month(y, m - 1)

toordinal(d) == days_before_year(d.year) + days_before_month(d.year, d.month) + d.day

fromordinal(n) ==
    LET y == CHOOSE c \in (n \div 366)..((n \div 365) + 1) :
                 days_before_year(c) < n /\ n <= days_before_year(c + 1)
        r == n - days_before_year(y)
        m == CHOOSE c \in 1..12 :
                 days_before_month(y, c) < r /\ r <= days_before_month(y, c) + days_in_month(y, c)
    IN  Date(y, m, r - days_before_month(y, m))

\* date.weekday(): Monday is 0 ... Sunday is 6
weekday(d) == (toordinal(d) + 6) % 7

\* day - timedelta(days=k)
minus_days(d, k) == fromordinal(toordinal(d) - k)

(***************************************************************************)
(* Text.  A string that the program parses is a sequence of one-character  *)
(* strings; a string that the program only builds is a TLA+ string.        *)
(***************************************************************************)
Digits == <<"0", "1", "2", "3", "4", "5", "6", "7", "8", "9">>

IsDigit(c) == \E i \in 1..10 : Digits[i] = c

DigitVal(c) == (CHOOSE i \in 1..10 : Digits[i] = c) - 1

\* "%02d" and "%04d"
Pad2(n) == Digits[((n \div 10) % 10) + 1] \o Digits[(n % 10) + 1]

Pad4(n) == Digits[((n \div 1000) % 10) + 1] \o Digits[((n \div 100) % 10) + 1] \o Pad2(n)

(***************************************************************************)
(* datetime.strptime(override, "%Y-%m-%d").date()                          *)
(* %Y is four digits; %m is 1[0-2] | 0[1-9] | [1-9]; %d is 3[01] | [12]\d  *)
(* | 0[1-9] | [1-9]; the whole text must be consumed and the fields must   *)
(* form a date that exists.  The result is [ok, date].                     *)
(***************************************************************************)
ParseFail == [ok |-> FALSE, date |-> NoDate]

\* the value of a %m or %d field, or 0 when the text is not such a field
FieldVal(s, max) ==
    IF Len(s) = 2 /\ IsDigit(s[1]) /\ IsDigit(s[2])
    THEN LET v == 10 * DigitVal(s[1]) + DigitVal(s[2])
         IN  IF 1 <= v /\ v <= max THEN v ELSE 0
    ELSE IF Len(s) = 1 /\ IsDigit(s[1]) THEN DigitVal(s[1])
    ELSE 0

strptime_date(s) ==
    IF Len(s) < 8 \/ Len(s) > 10 THEN ParseFail
    ELSE IF ~(\A i \in 1..4 : IsDigit(s[i])) \/ s[5] # "-" THEN ParseFail
    ELSE LET y    == 1000 * DigitVal(s[1]) + 100 * DigitVal(s[2])
                     + 10 * DigitVal(s[3]) + DigitVal(s[4])
             \* %m takes two characters when they form 01..12, else one
             mlen == IF FieldVal(SubSeq(s, 6, 7), 12) # 0 /\ IsDigit(s[7])
                        /\ Len(s) >= 9 /\ s[8] = "-"
                     THEN 2 ELSE 1
             m    == FieldVal(SubSeq(s, 6, 5 + mlen), 12)
             rest == SubSeq(s, 7 + mlen, Len(s))
             d    == FieldVal(rest, 31)
         IN  IF s[6 + mlen] # "-" \/ m = 0 \/ d = 0 \/ y = 0 THEN ParseFail
             ELSE IF d > days_in_month(y, m) THEN ParseFail
             ELSE [ok |-> TRUE, date |-> Date(y, m, d)]

(***************************************************************************)
(* now_utc.astimezone(ZoneInfo("America/Edmonton")).  An instant is        *)
(* [date, hour] in UTC (the resolver reads nothing finer than the hour).   *)
(* Mountain time: UTC-7, and UTC-6 from the second Sunday of March 02:00   *)
(* local (09:00 UTC) to the first Sunday of November 02:00 local           *)
(* (08:00 UTC).                                                            *)
(***************************************************************************)
Instant(d, h) == [date |-> d, hour |-> h]

nth_sunday(y, m, n) ==
    CHOOSE d \in 1..days_in_month(y, m) :
        weekday(Date(y, m, d)) = 6 /\ (d - 1) \div 7 = n - 1

hours_of(t) == toordinal(t.date) * 24 + t.hour

utcoffset_hours(now_utc) ==
    LET y     == now_utc.date.year
        start == Instant(Date(y, 3, nth_sunday(y, 3, 2)), 9)
        end   == Instant(Date(y, 11, nth_sunday(y, 11, 1)), 8)
    IN  IF hours_of(start) <= hours_of(now_utc) /\ hours_of(now_utc) < hours_of(end)
        THEN -6 ELSE -7

astimezone(now_utc) ==
    LET h == hours_of(now_utc) + utcoffset_hours(now_utc)
    IN  Instant(fromordinal(h \div 24), h % 24)

(***************************************************************************)
(* previous_business_day: the while loop, with the number of iterations.   *)
(***************************************************************************)
\* the loop written as a single "if": one step at most
business_day_loop_if(n, day) ==
    IF weekday(day) > 4
    THEN [day |-> minus_days(day, 1), iters |-> n + 1]
    ELSE [day |-> day, iters |-> n]

RECURSIVE business_day_loop(_, _)
business_day_loop(n, day) ==
    IF weekday(day) > 4
    THEN business_day_loop(n + 1, minus_days(day, 1))
    ELSE [day |-> day, iters |-> n]

previous_business_day(day) == business_day_loop(0, day).day

(***************************************************************************)
(* resolve_report_date(dataset, now_utc) with os.getenv("REPORT_DATE").    *)
(* The environment value is [set, text]: unset is None, and an empty text  *)
(* is falsy like None.  The result is [ok, date, error].                   *)
(***************************************************************************)
Unset == [set |-> FALSE, text |-> <<>>]

EnvValue(s) == [set |-> TRUE, text |-> s]

Returned(d) == [ok |-> TRUE, date |-> d, error |-> ""]

Raised(e) == [ok |-> FALSE, date |-> NoDate, error |-> e]

ST1_CUTOFF_HOUR == 10

ST100_CUTOFF_HOUR == 21

\* the rule logic with the ST1 branch at or after the cutoff returning the day unstepped
rule_date_unstepped(dataset, now_ab) ==
    LET day == now_ab.date
    IN  IF dataset = "ST1"
        THEN IF now_ab.hour < ST1_CUTOFF_HOUR
             THEN Returned(previous_business_day(minus_days(day, 1)))
             ELSE Returned(day)
        ELSE IF dataset = "ST100"
        THEN IF weekday(now_ab.date) > 4
             THEN Returned(previous_business_day(day))
             ELSE IF now_ab.hour < ST100_CUTOFF_HOUR
             THEN Returned(previous_business_day(minus_days(day, 1)))
             ELSE Returned(previous_business_day(day))
        ELSE Raised("Unknown dataset")

\* the rule logic with the cutoff hours themselves still on the early side
rule_date_le(dataset, now_ab) ==
    LET day == now_ab.date
    IN  IF dataset = "ST1"
        THEN IF now_ab.hour <= ST1_CUTOFF_HOUR
             THEN Returned(previous_business_day(minus_days(day, 1)))
             ELSE Returned(previous_business_day(day))
        ELSE IF dataset = "ST100"
        THEN IF weekday(now_ab.date) > 4
             THEN Returned(previous_business_day(day))
             ELSE IF now_ab.hour <= ST100_CUTOFF_HOUR
             THEN Returned(previous_business_day(minus_days(day, 1)))
             ELSE Returned(previous_business_day(day))
        ELSE Raised("Unknown dataset")

\* lines 34-54: the rule logic, on the publisher-local instant
rule_date(dataset, now_ab) ==
    LET day == now_ab.date
    IN  IF dataset = "ST1"
        THEN IF now_ab.hour < ST1_CUTOFF_HOUR
             THEN Returned(previous_business_day(minus_days(day, 1)))
             ELSE Returned(previous_business_day(day))
        ELSE IF dataset = "ST100"
        THEN IF weekday(now_ab.date) > 4
             THEN Returned(previous_business_day(day))
             ELSE IF now_ab.hour < ST100_CUTOFF_HOUR
             THEN Returned(previous_business_day(minus_days(day, 1)))
             ELSE Returned(previous_business_day(day))
        ELSE Raised("Unknown dataset")

\* the resolver with the override business-day stepped like a rule date
resolve_report_date_stepped(dataset, now_utc, override) ==
    IF override.set /\ Len(override.text) > 0
    THEN LET parsed == strptime_date(override.text)
         IN  IF parsed.ok THEN Returned(previous_business_day(parsed.date))
             ELSE Raised("time data does not match format")
    ELSE rule_date(dataset, astimezone(now_utc))

resolve_report_date(dataset, now_utc, override) ==
    IF override.set /\ Len(override.text) > 0
    THEN LET parsed == strptime_date(override.text)
         IN  IF parsed.ok THEN Returned(parsed.date) ELSE Raised("time data does not match format")
    ELSE rule_date(dataset, astimezone(now_utc))

(***************************************************************************)
(* build_url and s3_key.  The results are [ok, text, error].               *)
(***************************************************************************)
Text(t) == [ok |-> TRUE, text |-> t, error |-> ""]

NoText(e) == [ok |-> FALSE, text |-> "", error |-> e]

\* the locator with the second template as the default
build_url_default(dataset, day) ==
    LET mmdd == Pad2(day.month) \o Pad2(day.day)
    IN  IF dataset = "ST1"
        THEN Text("https://static.aer.ca/data/well-lic/WELLS" \o mmdd \o ".txt")
        ELSE Text("https://static.aer.ca/prd/data/pipeconst/PIPE" \o mmdd \o ".txt")

build_url(dataset, day) ==
    LET mmdd == Pad2(day.month) \o Pad2(day.day)
    IN  IF dataset = "ST1"
        THEN Text("https://static.aer.ca/data/well-lic/WELLS" \o mmdd \o ".txt")
        ELSE IF dataset = "ST100"
        THEN Text("https://static.aer.ca/prd/data/pipeconst/PIPE" \o mmdd \o ".txt")
        ELSE NoText("Unknown dataset")

\* str.lower() on the tags the model draws
lower(dataset) ==
    CASE dataset = "ST1" -> "st1"
      [] dataset = "ST100" -> "st100"
      [] dataset = "ST2" -> "st2"
      [] OTHER -> dataset

s3_key(day, dataset) ==
    Pad4(day.year) \o "/" \o Pad2(day.month) \o "/" \o Pad2(day.day) \o "/"
        \o lower(dataset) \o "_" \o Pad4(day.year) \o Pad2(day.month) \o Pad2(day.day)
        \o ".txt"

(***************************************************************************)
(* Bounds and the inputs the model draws.                                  *)
(***************************************************************************)
\* concurrent invocations of the handler
NumInvocations == 2

\* days drawn from each anchor date on
WindowDays == 8

Invocations == 1..NumInvocations

\* event["dataset"]: the two known tags, an unknown one, a known one in the wrong case
DatasetTags == {"ST1", "ST100", "ST2", "st1"}

KnownDatasets == {"ST1", "ST100"}

\* UTC dates around a year end, a leap day, the start and the end of daylight saving
Anchors == {Date(2023, 12, 28), Date(2024, 2, 26), Date(2024, 3, 7), Date(2024, 10, 30)}

ResolveInstants ==
    {Instant(fromordinal(toordinal(a) + k), h) : a \in Anchors, k \in 0..(WindowDays - 1), h \in 0..23}

\* REPORT_DATE values that are well-formed, each with the civil date it denotes
OverrideTable ==
    { [text |-> <<"2", "0", "2", "4", "-", "0", "3", "-", "1", "5">>, denotes |-> Date(2024, 3, 15)],
      [text |-> <<"2", "0", "2", "4", "-", "0", "3", "-", "1", "6">>, denotes |-> Date(2024, 3, 16)],
      [text |-> <<"2", "0", "2", "3", "-", "1", "2", "-", "3", "1">>, denotes |-> Date(2023, 12, 31)],
      [text |-> <<"2", "0", "2", "4", "-", "0", "2", "-", "2", "9">>, denotes |-> Date(2024, 2, 29)] }

WellFormed == {EnvValue(o.text) : o \in OverrideTable}

Denoted(override) == (CHOOSE o \in OverrideTable : o.text = override.text).denotes

\* REPORT_DATE values that strptime rejects, and the empty text
Malformed == {EnvValue(<<"2", "0", "2", "4", "-", "0", "2", "-", "3", "0">>),
              EnvValue(<<"1", "5", "/", "0", "3", "/", "2", "0", "2", "4">>)}

Overrides == {Unset, EnvValue(<<>>)} \cup WellFormed \cup Malformed

\* datetime.utcnow() in the handler: Friday 2024-03-15 16:00 UTC, 10:00 in Edmonton
HandlerInstants == {Instant(Date(2024, 3, 15), 16)}

HandlerDatasets == {"ST1", "ST100", "ST2"}

HandlerOverrides ==
    {Unset, EnvValue(<<"2", "0", "2", "4", "-", "0", "3", "-", "1", "6">>),
     EnvValue(<<"2", "0", "2", "4", "-", "0", "2", "-", "3", "0">>)}

\* bodies the source server may serve
Contents == {"wells-a", "wells-b"}

\* what urllib reports as HTTPError (status, no body)
HttpErrorCodes == {304, 404, 500}

\* ClientError codes head_object is made to answer with
HeadErrorCodes == {"404", "NoSuchKey", "NotFound", "403", "AccessDenied", "InternalError"}

ToleratedHeadCodes == {"404", "NoSuchKey", "NotFound", "403", "AccessDenied"}

AbsentCodes == {"404", "NoSuchKey", "NotFound"}

\* hashlib.sha256(content).hexdigest(): one digest per body
sha256(content) == "sha256:" \o content

(***************************************************************************)
(* State.                                                                  *)
(***************************************************************************)
VARIABLES
    REPORT_DATE,   \* os.environ.get("REPORT_DATE")
    arg_dataset,   \* the dataset a direct call of the resolver or locator is given
    arg_now,       \* the instant (and, by its date, the day) a direct call is given
    ret,           \* what the last direct call returned
    inv,           \* per invocation of handler: its locals, its position, its calls so far
    bucket,        \* RAW_BUCKET: the stored objects, one per key
    topic          \* SNS_TOPIC_ARN: the bag of messages published

vars == <<REPORT_DATE, arg_dataset, arg_now, ret, inv, bucket, topic>>

NoCall ==
    [fn |-> "none", ok |-> FALSE, date |-> NoDate, text |-> "", error |-> "",
     iters |-> 0, arg |-> NoDate]

NoResult == [dataset |-> "", date |-> "", status |-> "", url |-> ""]

Fresh(pos) ==
    [pc |-> pos, dataset |-> "", day |-> NoDate, url |-> "", status |-> 0,
     content |-> "", sha |-> "", key |-> "", head |-> "", result |-> NoResult,
     error |-> "", failed_at |-> "", log |-> <<>>, stored |-> FALSE, clobbered |-> FALSE]

\* f"{day:%Y-%m-%d}"
isoformat(day) == Pad4(day.year) \o "-" \o Pad2(day.month) \o "-" \o Pad2(day.day)

(***************************************************************************)
(* Direct calls of the pure functions, on drawn inputs.                    *)
(***************************************************************************)
InitResolve ==
    /\ REPORT_DATE \in Overrides
    /\ arg_dataset \in DatasetTags
    /\ arg_now \in ResolveInstants
    /\ ret = NoCall
    /\ inv = [p \in Invocations |-> Fresh("idle")]
    /\ bucket = {}
    /\ topic = EmptyBag

CallResolve ==
    /\ ret.fn = "none"
    /\ LET r == resolve_report_date(arg_dataset, arg_now, REPORT_DATE)
       IN  ret' = [NoCall EXCEPT !.fn = "resolve_report_date", !.ok = r.ok,
                                 !.date = r.date, !.error = r.error]
    /\ UNCHANGED <<REPORT_DATE, arg_dataset, arg_now, inv, bucket, topic>>

CallBuildUrl ==
    /\ ret.fn = "none"
    /\ LET u == build_url(arg_dataset, arg_now.date)
       IN  ret' = [NoCall EXCEPT !.fn = "build_url", !.ok = u.ok, !.text = u.text,
                                 !.error = u.error, !.arg = arg_now.date]
    /\ UNCHANGED <<REPORT_DATE, arg_dataset, arg_now, inv, bucket, topic>>

CallPreviousBusinessDay ==
    /\ ret.fn = "none"
    /\ ret' = [NoCall EXCEPT !.fn = "previous_business_day", !.ok = TRUE,
                             !.date = previous_business_day(arg_now.date),
                             !.iters = business_day_loop(0, arg_now.date).iters,
                             !.arg = arg_now.date]
    /\ UNCHANGED <<REPORT_DATE, arg_dataset, arg_now, inv, bucket, topic>>

\* the function applied to its own result
CallAgain ==
    /\ ret.fn = "previous_business_day"
    /\ ret' = [NoCall EXCEPT !.fn = "previous_business_day twice", !.ok = TRUE,
                             !.date = previous_business_day(ret.date),
                             !.iters = business_day_loop(0, ret.date).iters,
                             !.arg = ret.date]
    /\ UNCHANGED <<REPORT_DATE, arg_dataset, arg_now, inv, bucket, topic>>

NextResolve == CallResolve \/ CallBuildUrl \/ CallPreviousBusinessDay \/ CallAgain

SpecResolve == InitResolve /\ [][NextResolve]_vars

(***************************************************************************)
(* handler(event, _ctx).  One action per call of a collaborator, each with *)
(* the local computation that follows it up to the next call.  inv[p].log  *)
(* lists the collaborator calls the invocation has made, failed ones       *)
(* included; head is the outcome of the existing-object check, read by     *)
(* nothing after it and dropped at the put; stored and clobbered are       *)
(* history: the invocation's put succeeded, and another invocation deleted *)
(* the key after that.                                                     *)
(***************************************************************************)
Init ==
    /\ REPORT_DATE \in HandlerOverrides
    /\ arg_dataset = "ST1"
    /\ arg_now = Instant(Date(2024, 3, 15), 16)
    /\ ret = NoCall
    /\ inv = [p \in Invocations |-> Fresh("start")]
    /\ bucket = {}
    /\ topic = EmptyBag

Pure == <<REPORT_DATE, arg_dataset, arg_now, ret>>

Called(r, call) == [r EXCEPT !.log = Append(@, call)]

\* an exception leaves the handler: the invocation is over, nothing is returned
raise_retry_once(r, call, err) ==
    IF Len(SelectSeq(r.log, LAMBDA c : c = call)) < 2
    THEN [r EXCEPT !.error = err]
    ELSE [r EXCEPT !.pc = "failed", !.error = err, !.failed_at = call]

raise(r, call, err) == [r EXCEPT !.pc = "failed", !.error = err, !.failed_at = call]

\* the returned dict
result_of(r, status) ==
    [dataset |-> r.dataset, date |-> isoformat(r.day), status |-> status, url |-> r.url]

\* lines 123-125
started(r, ds, now, override) ==
    LET d == resolve_report_date(ds, now, override)
        u == build_url(ds, d.date)
    IN  IF ~d.ok THEN raise([r EXCEPT !.dataset = ds], "resolve_report_date", "ValueError: " \o d.error)
        ELSE IF ~u.ok THEN raise([r EXCEPT !.dataset = ds, !.day = d.date], "build_url", "ValueError: " \o u.error)
        ELSE [r EXCEPT !.pc = "fetch", !.dataset = ds, !.day = d.date, !.url = u.text]

Invoke(p) ==
    /\ inv[p].pc = "start"
    /\ \E ds \in HandlerDatasets, now \in HandlerInstants :
           inv' = [inv EXCEPT ![p] = started(@, ds, now, REPORT_DATE)]
    /\ UNCHANGED <<Pure, bucket, topic>>

\* lines 128-134, with 404 treated like every other status of 400 and more
fetched_404_fatal(r, status, content) ==
    IF status >= 400
    THEN raise([r EXCEPT !.status = status], "http_get", "RuntimeError: Failed to download")
    ELSE IF content = ""
    THEN raise([r EXCEPT !.status = status], "sha256", "TypeError")
    ELSE [r EXCEPT !.pc = "head", !.status = status, !.content = content,
                   !.sha = sha256(content), !.key = s3_key(r.day, r.dataset)]

\* lines 128-134: content "" stands for None
fetched(r, status, content) ==
    IF status = 404
    THEN [r EXCEPT !.pc = "done", !.status = status, !.result = result_of(r, "not_ready")]
    ELSE IF status >= 400
    THEN raise([r EXCEPT !.status = status], "http_get", "RuntimeError: Failed to download")
    ELSE IF content = ""
    THEN raise([r EXCEPT !.status = status], "sha256", "TypeError")
    ELSE [r EXCEPT !.pc = "head", !.status = status, !.content = content,
                   !.sha = sha256(content), !.key = s3_key(r.day, r.dataset)]

\* http_get: (200, body), or (e.code, None) on HTTPError, or another exception of urlopen
HttpGet(p) ==
    /\ inv[p].pc = "fetch"
    /\ \/ \E c \in Contents : inv' = [inv EXCEPT ![p] = fetched(Called(@, "http_get"), 200, c)]
       \/ \E code \in HttpErrorCodes :
              inv' = [inv EXCEPT ![p] = fetched(Called(@, "http_get"), code, "")]
       \/ inv' = [inv EXCEPT ![p] = raise(Called(@, "http_get"), "http_get", "URLError")]
    /\ UNCHANGED <<Pure, bucket, topic>>

\* lines 136-143 with the dedup guard acting: an unchanged object is not stored again
head_checked_skip(r, outcome) ==
    IF outcome = "match"
    THEN [r EXCEPT !.pc = "summarize", !.head = outcome]
    ELSE IF outcome = "differ" \/ outcome \in ToleratedHeadCodes
    THEN [r EXCEPT !.pc = "put", !.head = outcome]
    ELSE raise([r EXCEPT !.head = outcome], "head_object", "ClientError: " \o outcome)

\* lines 136-143: outcome is "match", "differ" or the code of a ClientError
head_checked(r, outcome) ==
    IF outcome \in {"match", "differ"}
    THEN [r EXCEPT !.pc = "put", !.head = outcome]
    ELSE IF outcome \in ToleratedHeadCodes
    THEN [r EXCEPT !.pc = "put", !.head = outcome]
    ELSE raise([r EXCEPT !.head = outcome], "head_object", "ClientError: " \o outcome)

Stored(key) == {o \in bucket : o.key = key}

HeadObject(p) ==
    /\ inv[p].pc = "head"
    /\ \/ \E o \in Stored(inv[p].key) :
              inv' = [inv EXCEPT ![p] = head_checked(Called(@, "head_object"),
                          IF o.sha256 = inv[p].sha THEN "match" ELSE "differ")]
       \/ \E code \in HeadErrorCodes :
              /\ code \in AbsentCodes => Stored(inv[p].key) = {}
              /\ inv' = [inv EXCEPT ![p] = head_checked(Called(@, "head_object"), code)]
    /\ UNCHANGED <<Pure, bucket, topic>>

\* lines 145-151
put_object(b, r) ==
    {o \in b : o.key # r.key}
        \cup {[key |-> r.key, body |-> r.content, source_url |-> r.url,
               sha256 |-> r.sha, dataset |-> r.dataset]}

PutObject(p) ==
    /\ inv[p].pc = "put"
    /\ \/ /\ bucket' = put_object(bucket, inv[p])
          /\ inv' = [inv EXCEPT ![p] = [Called(@, "put_object") EXCEPT
                         !.pc = "summarize", !.head = "", !.stored = TRUE]]
       \/ /\ inv' = [inv EXCEPT ![p] = raise([Called(@, "put_object") EXCEPT !.head = ""],
                                             "put_object", "ClientError")]
          /\ UNCHANGED bucket
    /\ UNCHANGED <<Pure, topic>>

\* lines 153-159: the decode cannot fail; invoke_model answers or raises
Summarize(p) ==
    /\ inv[p].pc = "summarize"
    /\ \/ inv' = [inv EXCEPT ![p] = [Called(@, "invoke_model") EXCEPT !.pc = "notify"]]
       \/ inv' = [inv EXCEPT ![p] = raise(Called(@, "invoke_model"), "invoke_model", "ClientError")]
    /\ UNCHANGED <<Pure, bucket, topic>>

\* lines 171-172
message(p, r) ==
    [by |-> p,
     subject |-> "AER " \o r.dataset \o " summary - " \o isoformat(r.day),
     text |-> "Daily AER Summary - " \o isoformat(r.day) \o " Dataset: " \o r.dataset
              \o " Source (temporary S3 key): " \o r.key]

\* publish, and then return without the delete of line 174
PublishAndReturn(p) ==
    /\ inv[p].pc = "notify"
    /\ \/ /\ topic' = topic (+) SetToBag({message(p, inv[p])})
          /\ inv' = [inv EXCEPT ![p] = [Called(@, "publish") EXCEPT
                         !.pc = "done", !.result = result_of(inv[p], "emailed_and_deleted")]]
       \/ /\ inv' = [inv EXCEPT ![p] = raise(Called(@, "publish"), "publish", "ClientError")]
          /\ UNCHANGED topic
    /\ UNCHANGED <<Pure, bucket>>

Publish(p) ==
    /\ inv[p].pc = "notify"
    /\ \/ /\ topic' = topic (+) SetToBag({message(p, inv[p])})
          /\ inv' = [inv EXCEPT ![p] = [Called(@, "publish") EXCEPT !.pc = "delete"]]
       \/ /\ inv' = [inv EXCEPT ![p] = raise(Called(@, "publish"), "publish", "ClientError")]
          /\ UNCHANGED topic
    /\ UNCHANGED <<Pure, bucket>>

\* a delete under the key built with another extension
delete_object_other_ext(b, r) == {o \in b : o.key # r.key \o ".bak"}

\* line 174
delete_object(b, r) == {o \in b : o.key # r.key}

\* lines 174-176
DeleteObject(p) ==
    /\ inv[p].pc = "delete"
    /\ \/ /\ bucket' = delete_object(bucket, inv[p])
          /\ inv' = [q \in Invocations |->
                       IF q = p
                       THEN [Called(inv[p], "delete_object") EXCEPT
                                !.pc = "done", !.result = result_of(inv[p], "emailed_and_deleted")]
                       ELSE IF inv[q].stored /\ inv[q].key = inv[p].key
                       THEN [inv[q] EXCEPT !.clobbered = TRUE]
                       ELSE inv[q]]
       \/ /\ inv' = [inv EXCEPT ![p] = raise(Called(@, "delete_object"), "delete_object", "ClientError")]
          /\ UNCHANGED bucket
    /\ UNCHANGED <<Pure, topic>>

\* the collaborator calls of a started invocation
Pipeline(p) ==
    \/ HttpGet(p)
    \/ HeadObject(p)
    \/ PutObject(p)
    \/ Summarize(p)
    \/ Publish(p)
    \/ DeleteObject(p)

Next == \E p \in Invocations : Invoke(p) \/ Pipeline(p)

Spec == Init /\ [][Next]_vars

(***************************************************************************)
(* Reference notions the properties are stated with.                       *)
(***************************************************************************)
\* REPORT_DATE is in effect: set and not empty
InEffect(override) == override.set /\ Len(override.text) > 0

\* the weekday of an ordinal, counted from Monday 2024-01-01
RefWeekday(n) == (n - toordinal(Date(2024, 1, 1))) % 7

\* the business-day stepper in closed form: Saturday 1 day back, Sunday 2
RefStep(n) == n - (IF RefWeekday(n) = 5 THEN 1 ELSE IF RefWeekday(n) = 6 THEN 2 ELSE 0)

\* the reference rule on the local date D (an ordinal), local hour H, local weekday W
RefRule(dataset, D, H, W) ==
    IF dataset = "ST1"
    THEN (IF H < 10 THEN RefStep(D - 1) ELSE RefStep(D))
    ELSE (IF W \in {5, 6} THEN RefStep(D)
          ELSE IF H < 21 THEN RefStep(D - 1) ELSE RefStep(D))

Local == astimezone(arg_now)

Resolved == ret.fn = "resolve_report_date"

Calls(p, call) == Len(SelectSeq(inv[p].log, LAMBDA c : c = call))

FullLog == <<"http_get", "head_object", "put_object", "invoke_model", "publish", "delete_object">>

Finished(p) == inv[p].pc \in {"done", "failed"}

(***************************************************************************)
(* C1.                                                                     *)
(***************************************************************************)
\* C1 as stated: for a known dataset and REPORT_DATE absent or well-formed,
\* a date that resolve_report_date returns is Monday-Friday.
C1_AlwaysWeekday ==
    (Resolved /\ ret.ok /\ arg_dataset \in KnownDatasets
        /\ (REPORT_DATE = Unset \/ REPORT_DATE \in WellFormed))
    => RefWeekday(toordinal(ret.date)) <= 4

\* C1 amended: for a known dataset, a date that resolve_report_date returns is
\* Monday-Friday unless REPORT_DATE is in effect and itself names a Saturday or
\* Sunday; with no override in effect the date is always Monday-Friday.
C1_WeekdayUnlessOverridden ==
    (Resolved /\ ret.ok /\ arg_dataset \in KnownDatasets
        /\ (~InEffect(REPORT_DATE) \/ REPORT_DATE \in WellFormed))
    => \/ RefWeekday(toordinal(ret.date)) <= 4
       \/ /\ REPORT_DATE \in WellFormed
          /\ RefWeekday(toordinal(Denoted(REPORT_DATE))) > 4

\* ST100 resolved on a local Sunday with no override: the Friday before
C1_Witness ==
    /\ Resolved /\ ret.ok /\ REPORT_DATE = Unset /\ arg_dataset = "ST100"
    /\ RefWeekday(toordinal(Local.date)) = 6
    /\ toordinal(ret.date) = toordinal(Local.date) - 2

(***************************************************************************)
(* C2.                                                                     *)
(***************************************************************************)
\* C2: with a well-formed REPORT_DATE, resolve_report_date returns exactly the
\* civil date the text denotes, for every dataset tag and every instant.
C2_OverrideReturnedAsIs ==
    (Resolved /\ REPORT_DATE \in WellFormed)
    => (ret.ok /\ ret.date = Denoted(REPORT_DATE))

\* the Saturday 2024-03-16 returned for ST100 at an instant whose rule date is another
C2_Witness ==
    /\ Resolved /\ ret.ok /\ arg_dataset = "ST100"
    /\ REPORT_DATE \in WellFormed /\ Denoted(REPORT_DATE) = Date(2024, 3, 16)
    /\ ret.date = Date(2024, 3, 16)
    /\ Local.date.year = 2023

(***************************************************************************)
(* C3.                                                                     *)
(***************************************************************************)
\* C3 as stated: for a tag outside {ST1, ST100}, resolve_report_date and
\* build_url both fail with the unknown-dataset error, whatever REPORT_DATE is.
C3_UnknownAlwaysRejected ==
    (arg_dataset \notin KnownDatasets /\ ret.fn \in {"resolve_report_date", "build_url"})
    => (~ret.ok /\ ret.error = "Unknown dataset")

\* C3 amended: for a tag outside {ST1, ST100}, build_url always fails with the
\* unknown-dataset error and returns no URL; resolve_report_date fails with it
\* and returns no date whenever no override is in effect; with an override in
\* effect the resolver never reaches the tag (it returns the override's date or
\* the parse error).
C3_UnknownRejectedByRules ==
    (arg_dataset \notin KnownDatasets)
    => /\ ret.fn = "build_url"
            => (~ret.ok /\ ret.error = "Unknown dataset" /\ ret.text = "")
       /\ (Resolved /\ ~InEffect(REPORT_DATE))
            => (~ret.ok /\ ret.error = "Unknown dataset" /\ ret.date = NoDate)
       /\ (Resolved /\ InEffect(REPORT_DATE))
            => /\ ret.error # "Unknown dataset"
               /\ ret.ok <=> REPORT_DATE \in WellFormed

\* the tag "st1" (wrong case) rejected by the resolver with no override
C3_Witness ==
    /\ Resolved /\ arg_dataset = "st1" /\ REPORT_DATE = Unset
    /\ ~ret.ok /\ ret.error = "Unknown dataset"

(***************************************************************************)
(* C4.                                                                     *)
(***************************************************************************)
\* C4: with no override, for a known dataset the resolver's date is the
\* reference rule applied to the publisher-local date, hour and weekday; at
\* the cutoff hours 10 (ST1) and 21 (ST100) that is step(D).
C4_MatchesReferenceRule ==
    (Resolved /\ ~InEffect(REPORT_DATE) /\ arg_dataset \in KnownDatasets)
    => /\ ret.ok
       /\ toordinal(ret.date)
            = RefRule(arg_dataset, toordinal(Local.date), Local.hour,
                      RefWeekday(toordinal(Local.date)))

\* ST100 at local 21:00 on a Tuesday: the Tuesday itself
C4_Witness ==
    /\ Resolved /\ REPORT_DATE = Unset /\ arg_dataset = "ST100"
    /\ Local.hour = 21 /\ RefWeekday(toordinal(Local.date)) = 1
    /\ ret.date = Local.date

(***************************************************************************)
(* C5.                                                                     *)
(***************************************************************************)
\* C5: previous_business_day(d) ends after at most two iterations with a
\* Monday-Friday date that is d exactly when d is Monday-Friday; a Saturday
\* gives the day before, a Sunday the day two before; applied to its own
\* result it returns that result.
C5_BusinessDayStepper ==
    (ret.fn \in {"previous_business_day", "previous_business_day twice"})
    => LET a == toordinal(ret.arg)
           r == toordinal(ret.date)
       IN  /\ RefWeekday(r) <= 4
           /\ (ret.date = ret.arg) <=> (RefWeekday(a) <= 4)
           /\ RefWeekday(a) = 5 => (r = a - 1 /\ ret.iters = 1)
           /\ RefWeekday(a) = 6 => (r = a - 2 /\ ret.iters = 2)
           /\ RefWeekday(a) <= 4 => ret.iters = 0
           /\ ret.fn = "previous_business_day twice" => ret.date = ret.arg

\* a Sunday stepped to its Friday, and the Friday stepped again to itself
C5_Witness ==
    /\ ret.fn = "previous_business_day twice"
    /\ RefWeekday(toordinal(arg_now.date)) = 6
    /\ toordinal(ret.date) = toordinal(arg_now.date) - 2
    /\ ret.arg = ret.date

(***************************************************************************)
(* C6.                                                                     *)
(***************************************************************************)
\* C6: an invocation whose fetch reports 404 returns normally with status
\* not_ready, having called nothing but http_get: no head, put or delete, no
\* summarization, no notification; and not_ready is returned for 404 only.
C6_NotReadyOn404 ==
    \A p \in Invocations :
        /\ inv[p].status = 404
             => /\ inv[p].pc = "done"
                /\ inv[p].error = ""
                /\ inv[p].result = result_of(inv[p], "not_ready")
                /\ inv[p].log = <<"http_get">>
                /\ ~inv[p].stored
                /\ \A m \in BagToSet(topic) : m.by # p
        /\ inv[p].result.status = "not_ready" => inv[p].status = 404

\* an invocation answered 404, returned not_ready
C6_Witness ==
    \E p \in Invocations :
        /\ inv[p].status = 404
        /\ inv[p].pc = "done"
        /\ inv[p].result.status = "not_ready"
        /\ Stored(s3_key(inv[p].day, inv[p].dataset)) = {}

FailedAfterStore(p) ==
    inv[p].pc = "failed" /\ inv[p].failed_at \in {"invoke_model", "publish"}

NoRetryNoDelete(p) ==
    /\ \A c \in {"http_get", "head_object", "put_object", "invoke_model", "publish"} :
           Calls(p, c) <= 1
    /\ Calls(p, "delete_object") = 0
    /\ inv[p].result = NoResult
    /\ inv[p].stored

\* C8 as stated: when summarization or notification fails after the store, the
\* invocation ends without a result, having retried nothing and not called
\* delete, and the stored object is present.
C8_ObjectLeftBehind ==
    \A p \in Invocations :
        FailedAfterStore(p) => (NoRetryNoDelete(p) /\ Stored(inv[p].key) # {})

\* C8 amended: when summarization or notification fails after the store, the
\* invocation ends without a result, having retried nothing and not called
\* delete; an object is present under its key unless another invocation for
\* the same key has deleted it since the store.
C8_ObjectLeftUnlessDeletedByOther ==
    \A p \in Invocations :
        FailedAfterStore(p)
        => /\ NoRetryNoDelete(p)
           /\ ~inv[p].clobbered => Stored(inv[p].key) # {}
           /\ (\A q \in Invocations \ {p} : inv[q].key # inv[p].key) => ~inv[p].clobbered

\* a notification failed after the store, and the object is still there
C8_Witness ==
    \E p \in Invocations :
        /\ inv[p].pc = "failed" /\ inv[p].failed_at = "publish"
        /\ ~inv[p].clobbered
        /\ \E o \in Stored(inv[p].key) : o.sha256 = inv[p].sha
        /\ inv[p].log = SubSeq(FullLog, 1, 5)

(***************************************************************************)
(* C9.                                                                     *)
(***************************************************************************)
\* C9 as stated: whatever the existing-object check yields, an error of the
\* check included, the invocation goes on to the store.
C9_HeadNeverBranches ==
    \A p \in Invocations : inv[p].head # "" => inv[p].pc = "put"

\* C9 amended: when the check finds an object (checksum equal or not) or
\* reports one of the codes 404, NoSuchKey, NotFound, 403, AccessDenied, the
\* invocation goes on to the store with nothing changed but its position, and
\* the store then writes the fetched content whatever the check found; on any
\* other error code the invocation ends in a fatal error before the store.
C9_HeadBranchesOnlyOnOtherErrors ==
    [][\A p \in Invocations :
          /\ (inv[p].pc = "head" /\ inv'[p] # inv[p])
               => /\ inv'[p].head \in {"match", "differ"} \cup HeadErrorCodes
                  /\ <<bucket', topic'>> = <<bucket, topic>>
                  /\ IF inv'[p].head \in {"match", "differ"} \cup ToleratedHeadCodes
                     THEN inv'[p] = [inv[p] EXCEPT !.pc = "put", !.head = inv'[p].head,
                                                   !.log = Append(@, "head_object")]
                     ELSE /\ inv'[p].pc = "failed"
                          /\ inv'[p].failed_at = "head_object"
                          /\ Calls(p, "put_object")' = 0
          /\ (inv[p].pc = "put" /\ inv'[p].pc = "summarize")
               => \E o \in bucket' :
                      /\ o.key = inv[p].key
                      /\ o.body = inv[p].content
                      /\ o.sha256 = inv[p].sha
      ]_vars

\* the check found the same content already stored, and the invocation is about to store
C9_Witness ==
    \E p \in Invocations :
        /\ inv[p].pc = "put"
        /\ inv[p].head = "match"
        /\ \E o \in Stored(inv[p].key) : o.sha256 = inv[p].sha

(***************************************************************************)
(* C10.                                                                    *)
(***************************************************************************)
SameKey(k) == {p \in Invocations : inv[p].key = k}

\* C10: an invocation that has started can always take its next step, whatever
\* the others do; and once every invocation has finished, for each key whose
\* invocations met no failing call: each of them returned emailed_and_deleted,
\* each published exactly one message (as many messages as invocations), and
\* no object is stored under the key.
C10_ConcurrentInvocations ==
    /\ \A p \in Invocations :
           inv[p].pc \notin {"start", "done", "failed", "idle"} => ENABLED Pipeline(p)
    /\ (\A p \in Invocations : Finished(p))
       => \A k \in {inv[p].key : p \in Invocations} \ {""} :
              (\A p \in SameKey(k) : inv[p].failed_at = "")
              => /\ \A p \in SameKey(k) :
                        /\ inv[p].pc = "done"
                        /\ inv[p].result.status = "emailed_and_deleted"
                        /\ CopiesIn(message(p, inv[p]), topic) = 1
                        /\ Calls(p, "publish") = 1
                 /\ Cardinality({m \in BagToSet(topic) : m.by \in SameKey(k)})
                        = Cardinality(SameKey(k))
                 /\ Stored(k) = {}

\* two invocations for one key, fetched with different bodies, both through
C10_Witness ==
    \E p, q \in Invocations :
        /\ p # q
        /\ \A i \in Invocations : Finished(i)
        /\ inv[p].key = inv[q].key /\ inv[p].key # ""
        /\ inv[p].sha # inv[q].sha
        /\ inv[p].result.status = "emailed_and_deleted"
        /\ inv[q].result.status = "emailed_and_deleted"
        /\ Stored(inv[p].key) = {}

====
